---- MODULE Spec2Model ----
(***************************************************************************)
(* Model of the Serializer library (Serializer.h) and of its caller        *)
(* (example.c).  A sender build serialises a struct into a frame           *)
(*   [stream id : u32][meta count : u32][meta entries : 8 bytes each]      *)
(*   [raw image of the struct]                                             *)
(* and a receiver build, possibly compiled from another version of the     *)
(* field list, deserialises the frame into its own struct.                 *)
(*                                                                         *)
(* Memory is modelled at byte level.  Buffers are functions from a byte    *)
(* index (0-based, as in C) to a value in 0..255.  Integers are stored in  *)
(* the host representation, which is taken to be little-endian.  The       *)
(* caller's frame buffer is the first bufCap bytes of a memory window; a   *)
(* write or read at an index >= bufCap touches the memory behind the       *)
(* buffer, whose content is arbitrary.                                     *)
(***************************************************************************)
EXTENDS Integers, Sequences, FiniteSets, TLC

\* ------------------------------------------------------------------ bounds

\* Array fields of the generated struct versions have 1..MaxArrayLen bytes.
MaxArrayLen == 3
\* Number of distinct record images the sender may hold.
NumRecords == 1
\* A short destination buffer misses 1..MaxShort bytes of the frame.
MaxShort == 1

\* --------------------------------------------------------- program constants

\* uint8_t buffer[256] of the caller.
BUFFER_SIZE == 256
\* sizeof(Serializer_Field_Meta_t): uint32_t + uint16_t + uint16_t.
META_ENTRY_SIZE == 8
\* sizeof(uint32_t)
U32_SIZE == 4

SERIALIZER_DESERIALIZER_ERROR_NONE == "ERROR_NONE"
SERIALIZER_DESERIALIZER_ERROR_STREAM_ID_MISMATCH == "ERROR_STREAM_ID_MISMATCH"

\* ------------------------------------------------------------ byte helpers

\* The bytes of a uint32_t / uint16_t object on the (little-endian) host.
U32Bytes(v) ==
    << v % 256, (v \div 256) % 256, (v \div 65536) % 256, (v \div 16777216) % 256 >>

U16Bytes(v) == << v % 256, (v \div 256) % 256 >>

\* memcpy(&x, mem + at, sizeof(uint32_t)) / the uint16_t members of a copied entry.
ReadU32(mem, at) ==
    mem[at] + 256 * mem[at + 1] + 65536 * mem[at + 2] + 16777216 * mem[at + 3]

ReadU16(mem, at) == mem[at] + 256 * mem[at + 1]

\* The n bytes of mem starting at index at, as a sequence.
Bytes(mem, at, n) == [k \in 1..n |-> mem[at + k - 1]]

\* memcpy(mem + at, src, Len(src)).
Memcpy(mem, at, src) ==
    [k \in DOMAIN mem |->
        IF k >= at /\ k < at + Len(src) THEN src[k - at + 1] ELSE mem[k]]

\* The indices a memcpy of n bytes at `at` touches.
Range(at, n) == {k \in at..(at + n - 1) : TRUE}

\* --------------------------------------------------- struct and meta macros

int32_t == [size |-> 4, align |-> 4]
float == [size |-> 4, align |-> 4]
uint8_array(n) == [size |-> n, align |-> 1]

\* One line X(enable, id, type, name) of a field list.
X(enable, id, type) == [enable |-> enable, id |-> id, type |-> type]

\* SERIALIZER_STRUCT_FIELD: a DISABLE line declares no member.
StructFields(fields) == SelectSeq(fields, LAMBDA f : f.enable = "ENABLE")

AlignUp(x, a) == ((x + a - 1) \div a) * a

\* offsetof(struct, k-th member): members in declaration order, each at the
\* next multiple of its alignment.
RECURSIVE OffsetOf(_, _)
OffsetOf(members, k) ==
    IF k = 1 THEN 0
    ELSE AlignUp(OffsetOf(members, k - 1) + members[k - 1].type.size,
                 members[k].type.align)

RECURSIVE MaxAlign(_, _)
MaxAlign(members, k) ==
    IF k = 0 THEN 1
    ELSE LET a == MaxAlign(members, k - 1)
         IN  IF members[k].type.align > a THEN members[k].type.align ELSE a

\* sizeof(struct): the end of the last member rounded up to the alignment.
SizeOf(members) ==
    LET n == Len(members)
    IN  AlignUp(OffsetOf(members, n) + members[n].type.size, MaxAlign(members, n))

\* SERIALIZER_CREATE_META_IMPL: one {id, offsetof, sizeof} entry per ENABLE
\* line, narrowed to the members' types (uint16_t for offset and size; the
\* ids of the model are far below 2^32, so the uint32_t keeps them).
MetaTable(fields) ==
    LET members == StructFields(fields)
    IN  [k \in 1..Len(members) |->
            [type_id |-> members[k].id,
             offset  |-> OffsetOf(members, k) % 65536,
             size    |-> members[k].type.size % 65536]]

\* SERIALIZER_CREATE_TYPEDEF_STRUCT(struct_name, struct_fields, stream_id):
\* what one build knows about its struct.
CreateTypedefStruct(fields, stream_id) ==
    [meta      |-> MetaTable(fields),
     size      |-> SizeOf(StructFields(fields)),
     stream_id |-> stream_id]

\* The field lists of example.c.
STREAM_1_FEILDS ==
    << X("ENABLE", 1, int32_t), X("DISABLE", 2, float), X("ENABLE", 3, uint8_array(20)) >>

STREAM_2_FEILDS ==
    << X("ENABLE", 1, int32_t), X("DISABLE", 2, float),
       X("ENABLE", 3, uint8_array(40)), X("ENABLE", 4, uint8_array(20)) >>

Stream1_Struct_t == CreateTypedefStruct(STREAM_1_FEILDS, 1)
Stream2_Struct_t == CreateTypedefStruct(STREAM_2_FEILDS, 2)

\* Other versions of the Stream1 field list, as independent builds see it:
\* field2 enabled or not, field3 resized, field4 appended or not.
VersionFields(enable2, len3, with4) ==
    << X("ENABLE", 1, int32_t),
       X(IF enable2 THEN "ENABLE" ELSE "DISABLE", 2, float),
       X("ENABLE", 3, uint8_array(len3)),
       X(IF with4 THEN "ENABLE" ELSE "DISABLE", 4, uint8_array(2)) >>

\* A version that declares field3 before field1 (field1 then follows padding).
ReorderedFields(len3) ==
    << X("ENABLE", 3, uint8_array(len3)), X("ENABLE", 1, int32_t) >>

Builds ==
    {Stream1_Struct_t, Stream2_Struct_t}
    \cup {CreateTypedefStruct(VersionFields(e2, l3, w4), 1) :
            e2 \in BOOLEAN, l3 \in 1..MaxArrayLen, w4 \in BOOLEAN}
    \cup {CreateTypedefStruct(ReorderedFields(l3), 1) : l3 \in 1..MaxArrayLen}

\* ------------------------------------------------------------ caller's data

\* An image of n bytes whose byte k holds (seed + k) mod 256.
Pattern(seed, n) == [k \in 0..(n - 1) |-> (seed + k) % 256]

\* Stream1_Struct_t obj = {0}.
Zeroed(n) == [k \in 0..(n - 1) |-> 0]

\* obj1 of test_serializer_deserializer: field1 = 42, field3 = "Hello, World!".
HelloWorld == << 72, 101, 108, 108, 111, 44, 32, 87, 111, 114, 108, 100, 33, 0 >>

ExampleObj1 ==
    Memcpy(Memcpy(Zeroed(Stream1_Struct_t.size), 0, U32Bytes(42)), 4, HelloWorld)

\* The records a sender of build b may serialise.
SenderRecords(b) ==
    {Pattern(17 * r, b.size) : r \in 1..NumRecords}
    \cup (IF b = Stream1_Struct_t THEN {ExampleObj1} ELSE {})

\* The receiver's struct on entry: zeroed as in example.c, or stale data.
ReceiverRecords(b) == {Zeroed(b.size), Pattern(160, b.size)}

\* The caller's buffer memory before Serialize: zeroed as in example.c, or stale.
InitialMemory == {Zeroed(BUFFER_SIZE), [k \in 0..(BUFFER_SIZE - 1) |-> (3 * k + 101) % 256]}

\* sizeof of the whole frame of build b.
FrameSize(b) == 2 * U32_SIZE + META_ENTRY_SIZE * Len(b.meta) + b.size

\* The capacity of the destination buffer: the example's, or short of the frame.
BufferCaps(b) == {BUFFER_SIZE} \cup {FrameSize(b) - s : s \in 1..MaxShort}

StreamIds == {1, 2, 257}

\* ------------------------------------------------------------------ state

VARIABLES
    pc,                 \* where the caller of example.c is
    sender,             \* the build that serialises: its meta table, sizeof, stream id
    receiver,           \* the build that deserialises
    obj1,               \* the sender's struct (obj of Serialize_...)
    buffer,             \* the memory holding the frame buffer
    bufCap,             \* the length of the caller's buffer within that memory
    obj2,               \* the receiver's struct (obj of Deserialize_...)
    received_stream_id, \* locals of Deserialize_...
    received_meta_size,
    meta_field_ptr,
    received_obj_ptr,
    i,
    err,                \* the value Deserialize_... returned
    obj2_entry,         \* history: obj2 when Deserialize_... was entered
    ser_writes,         \* history: buffer indices Serialize_... wrote
    des_reads,          \* history: buffer indices Deserialize_... read
    des_writes,         \* history: obj2 indices Deserialize_... wrote
    copies              \* history: one record per field memcpy of Deserialize_...

vars ==
    << pc, sender, receiver, obj1, buffer, bufCap, obj2, received_stream_id,
       received_meta_size, meta_field_ptr, received_obj_ptr, i, err, obj2_entry,
       ser_writes, des_reads, des_writes, copies >>

\* ------------------------------------------------------------- Serialize_...

\* Mutant of MetaEntryBytes: the uint16_t members in the other order.
MetaEntryBytes_SizeFirst(m) == U32Bytes(m.type_id) \o U16Bytes(m.size) \o U16Bytes(m.offset)

\* The bytes of one Serializer_Field_Meta_t.
MetaEntryBytes(m) == U32Bytes(m.type_id) \o U16Bytes(m.offset) \o U16Bytes(m.size)

\* The bytes of the array struct_name##_meta.
MetaTableBytes(meta) ==
    [k \in 1..(META_ENTRY_SIZE * Len(meta)) |->
        MetaEntryBytes(meta[((k - 1) \div META_ENTRY_SIZE) + 1])[((k - 1) % META_ENTRY_SIZE) + 1]]

\* One memcpy(buffer, src, n); buffer += n of Serialize_...: st is the memory,
\* the write position and the indices written so far.
SerializeCopy(st, src) ==
    [mem    |-> Memcpy(st.mem, st.at, src),
     at     |-> st.at + Len(src),
     writes |-> st.writes \cup Range(st.at, Len(src))]

\* Serialize_##struct_name(buffer, obj): no length of the destination is
\* passed or checked.
SerializeImpl(mem, obj, b) ==
    LET meta_size == Len(b.meta)
        s0 == [mem |-> mem, at |-> 0, writes |-> {}]
        s1 == SerializeCopy(s0, U32Bytes(b.stream_id))
        s2 == SerializeCopy(s1, U32Bytes(meta_size))
        s3 == SerializeCopy(s2, MetaTableBytes(b.meta))
        s4 == SerializeCopy(s3, Bytes(obj, 0, b.size))
    IN  s4

\* ----------------------------------------------------------- Deserialize_...

\* Mutant of Get_Meta_Field_By_ID: an unknown id yields the last entry, not NULL.
Get_Meta_Field_By_ID_LastOnMiss(meta, type_id) ==
    IF \E k \in DOMAIN meta : meta[k].type_id = type_id
    THEN CHOOSE k \in DOMAIN meta :
             /\ meta[k].type_id = type_id
             /\ \A j \in 1..(k - 1) : meta[j].type_id # type_id
    ELSE Len(meta)

\* Serializer_Get_##struct_name##_Meta_Field_By_ID: the index of the first
\* entry of the build's own table with this id, 0 for NULL.
RECURSIVE MetaFieldByIdFrom(_, _, _)
MetaFieldByIdFrom(meta, type_id, k) ==
    IF k > Len(meta) THEN 0
    ELSE IF meta[k].type_id = type_id THEN k
    ELSE MetaFieldByIdFrom(meta, type_id, k + 1)

Get_Meta_Field_By_ID(meta, type_id) == MetaFieldByIdFrom(meta, type_id, 1)

\* Mutant of StreamIdMismatch: only the first byte of the id is compared.
StreamIdMismatch_LowByte(received, expected) == (received % 256) # (expected % 256)

\* if (received_stream_id != stream_id)
StreamIdMismatch(received, expected) == received # expected

\* memcpy(&received_meta_field, meta_field_ptr, sizeof(Serializer_Field_Meta_t)).
ReceivedMetaField(mem, ptr) ==
    [type_id |-> ReadU32(mem, ptr),
     offset  |-> ReadU16(mem, ptr + 4),
     size    |-> ReadU16(mem, ptr + 6)]

\* The third argument of the field memcpy: our_meta_field->size.
CopySize(received_meta_field, our_meta_field) == our_meta_field.size

\* Mutant of CopySource: the received offset is forgotten.
CopySource_NoOffset(obj_ptr, received_meta_field) == obj_ptr

\* The source of the field memcpy: received_obj_ptr + received_meta_field.offset.
CopySource(obj_ptr, received_meta_field) == obj_ptr + received_meta_field.offset

\* Mutant of CopyDest: the sender's offset is used for the receiver's struct.
CopyDest_ReceivedOffset(received_meta_field, our_meta_field) == received_meta_field.offset

\* The destination of the field memcpy: (uint8_t *)obj + our_meta_field->offset.
CopyDest(received_meta_field, our_meta_field) == our_meta_field.offset

\* Mutant of LoopBody: the i-th received entry is matched with the i-th own
\* entry instead of being looked up by id.
LoopBody_Positional(mem, obj, ptr, obj_ptr, b) ==
    LET received_meta_field == ReceivedMetaField(mem, ptr)
        pos == ((ptr - 2 * U32_SIZE) \div META_ENTRY_SIZE) + 1
        our == IF pos <= Len(b.meta) THEN pos ELSE 0
    IN  IF our # 0
        THEN LET our_meta_field == b.meta[our]
                 n   == CopySize(received_meta_field, our_meta_field)
                 src == CopySource(obj_ptr, received_meta_field)
                 dst == CopyDest(received_meta_field, our_meta_field)
             IN  [obj  |-> Memcpy(obj, dst, Bytes(mem, src, n)),
                  ptr  |-> ptr + META_ENTRY_SIZE,
                  copy |-> [id |-> received_meta_field.type_id, src |-> src,
                            dst |-> dst, n |-> n,
                            received_size |-> received_meta_field.size,
                            our_size |-> our_meta_field.size]]
        ELSE [obj  |-> obj,
              ptr  |-> ptr + META_ENTRY_SIZE,
              copy |-> [id |-> received_meta_field.type_id, n |-> -1]]

\* Mutant of LoopBody: an unknown id skips the rest of the body (continue),
\* the advance of meta_field_ptr included.
LoopBody_SkipUnknown(mem, obj, ptr, obj_ptr, b) ==
    LET received_meta_field == ReceivedMetaField(mem, ptr)
        our == Get_Meta_Field_By_ID(b.meta, received_meta_field.type_id)
    IN  IF our # 0
        THEN LET our_meta_field == b.meta[our]
                 n   == CopySize(received_meta_field, our_meta_field)
                 src == CopySource(obj_ptr, received_meta_field)
                 dst == CopyDest(received_meta_field, our_meta_field)
             IN  [obj  |-> Memcpy(obj, dst, Bytes(mem, src, n)),
                  ptr  |-> ptr + META_ENTRY_SIZE,
                  copy |-> [id |-> received_meta_field.type_id, src |-> src,
                            dst |-> dst, n |-> n,
                            received_size |-> received_meta_field.size,
                            our_size |-> our_meta_field.size]]
        ELSE [obj  |-> obj,
              ptr  |-> ptr,
              copy |-> [id |-> received_meta_field.type_id, n |-> -1]]

\* The body of the for loop for the entry at ptr: the struct after it, the
\* advanced meta_field_ptr, and what the memcpy did (copy.n = -1 when
\* our_meta_field == NULL and nothing is copied).
LoopBody(mem, obj, ptr, obj_ptr, b) ==
    LET received_meta_field == ReceivedMetaField(mem, ptr)
        our == Get_Meta_Field_By_ID(b.meta, received_meta_field.type_id)
    IN  IF our # 0
        THEN LET our_meta_field == b.meta[our]
                 n   == CopySize(received_meta_field, our_meta_field)
                 src == CopySource(obj_ptr, received_meta_field)
                 dst == CopyDest(received_meta_field, our_meta_field)
             IN  [obj  |-> Memcpy(obj, dst, Bytes(mem, src, n)),
                  ptr  |-> ptr + META_ENTRY_SIZE,
                  copy |-> [id |-> received_meta_field.type_id, src |-> src,
                            dst |-> dst, n |-> n,
                            received_size |-> received_meta_field.size,
                            our_size |-> our_meta_field.size]]
        ELSE [obj  |-> obj,
              ptr  |-> ptr + META_ENTRY_SIZE,
              copy |-> [id |-> received_meta_field.type_id, n |-> -1]]

\* The for loop from iteration k on, as one function of the frame.
RECURSIVE DeserializeLoop(_, _, _, _, _, _, _)
DeserializeLoop(mem, obj, ptr, obj_ptr, k, n, b) ==
    IF k >= n THEN obj
    ELSE LET r == LoopBody(mem, obj, ptr, obj_ptr, b)
         IN  DeserializeLoop(mem, r.obj, r.ptr, obj_ptr, k + 1, n, b)

\* Deserialize_##struct_name(buffer, obj) as one function: the value returned
\* and the struct left behind.
DeserializeImpl(mem, obj, b) ==
    IF StreamIdMismatch(ReadU32(mem, 0), b.stream_id)
    THEN [err |-> SERIALIZER_DESERIALIZER_ERROR_STREAM_ID_MISMATCH, obj |-> obj]
    ELSE LET n == ReadU32(mem, U32_SIZE)
         IN  [err |-> SERIALIZER_DESERIALIZER_ERROR_NONE,
              obj |-> DeserializeLoop(mem, obj, 2 * U32_SIZE,
                                      2 * U32_SIZE + META_ENTRY_SIZE * n, 0, n, b)]

\* ----------------------------------------------------------------- actions

Init ==
    /\ pc = "start"
    /\ sender \in Builds
    /\ receiver \in Builds
    /\ obj1 \in SenderRecords(sender)
    /\ obj2 \in ReceiverRecords(receiver)
    /\ buffer \in InitialMemory
    /\ bufCap \in BufferCaps(sender)
    /\ received_stream_id = 0
    /\ received_meta_size = 0
    /\ meta_field_ptr = 0
    /\ received_obj_ptr = 0
    /\ i = 0
    /\ err = "none yet"
    /\ obj2_entry = obj2
    /\ ser_writes = {}
    /\ des_reads = {}
    /\ des_writes = {}
    /\ copies = << >>

\* Serialize_Stream1_Struct_t(buffer, &obj1).
Serialize ==
    /\ pc = "start"
    /\ LET s == SerializeImpl(buffer, obj1, sender)
       IN  /\ buffer' = s.mem
           /\ ser_writes' = s.writes
    /\ pc' = "serialized"
    /\ UNCHANGED << sender, receiver, obj1, bufCap, obj2, received_stream_id,
                    received_meta_size, meta_field_ptr, received_obj_ptr, i, err,
                    obj2_entry, des_reads, des_writes, copies >>

\* The frame reaches the receiver as written.
Deliver ==
    /\ pc = "serialized"
    /\ pc' = "delivered"
    /\ UNCHANGED << sender, receiver, obj1, buffer, bufCap, obj2, received_stream_id,
                    received_meta_size, meta_field_ptr, received_obj_ptr, i, err,
                    obj2_entry, ser_writes, des_reads, des_writes, copies >>

\* Only the stream-id bytes of the frame are replaced on the way.
CorruptStreamId ==
    /\ pc = "serialized"
    /\ \E id \in StreamIds \ {ReadU32(buffer, 0)} :
           buffer' = Memcpy(buffer, 0, U32Bytes(id))
    /\ pc' = "delivered"
    /\ UNCHANGED << sender, receiver, obj1, bufCap, obj2, received_stream_id,
                    received_meta_size, meta_field_ptr, received_obj_ptr, i, err,
                    obj2_entry, ser_writes, des_reads, des_writes, copies >>

\* Deserialize_...(buffer, &obj2) up to the for loop: the stream id is read
\* and compared; on a mismatch the function returns at once.
DeserializeEntry ==
    /\ pc = "delivered"
    /\ received_stream_id' = ReadU32(buffer, 0)
    /\ IF StreamIdMismatch(received_stream_id', receiver.stream_id)
       THEN /\ err' = SERIALIZER_DESERIALIZER_ERROR_STREAM_ID_MISMATCH
            /\ pc' = "returned"
            /\ des_reads' = Range(0, U32_SIZE)
            /\ UNCHANGED << received_meta_size, meta_field_ptr, received_obj_ptr, i >>
       ELSE /\ received_meta_size' = ReadU32(buffer, U32_SIZE)
            /\ meta_field_ptr' = 2 * U32_SIZE
            /\ received_obj_ptr' = 2 * U32_SIZE + META_ENTRY_SIZE * received_meta_size'
            /\ i' = 0
            /\ des_reads' = Range(0, U32_SIZE) \cup Range(U32_SIZE, U32_SIZE)
            /\ pc' = "loop"
            /\ UNCHANGED err
    /\ UNCHANGED << sender, receiver, obj1, buffer, bufCap, obj2, obj2_entry,
                    ser_writes, des_writes, copies >>

\* One iteration of for (i = 0; i < received_meta_size; i++).
DeserializeField ==
    /\ pc = "loop"
    /\ i < received_meta_size
    /\ LET r == LoopBody(buffer, obj2, meta_field_ptr, received_obj_ptr, receiver)
       IN  /\ obj2' = r.obj
           /\ meta_field_ptr' = r.ptr
           /\ copies' = Append(copies, r.copy)
           /\ des_reads' = des_reads \cup Range(meta_field_ptr, META_ENTRY_SIZE)
                               \cup (IF r.copy.n >= 0 THEN Range(r.copy.src, r.copy.n) ELSE {})
           /\ des_writes' = des_writes
                               \cup (IF r.copy.n >= 0 THEN Range(r.copy.dst, r.copy.n) ELSE {})
    /\ i' = i + 1
    /\ UNCHANGED << pc, sender, receiver, obj1, buffer, bufCap, received_stream_id,
                    received_meta_size, received_obj_ptr, err, obj2_entry, ser_writes >>

\* The loop is over: return SERIALIZER_DESERIALIZER_ERROR_NONE.
DeserializeReturn ==
    /\ pc = "loop"
    /\ i >= received_meta_size
    /\ err' = SERIALIZER_DESERIALIZER_ERROR_NONE
    /\ pc' = "returned"
    /\ UNCHANGED << sender, receiver, obj1, buffer, bufCap, obj2, received_stream_id,
                    received_meta_size, meta_field_ptr, received_obj_ptr, i,
                    obj2_entry, ser_writes, des_reads, des_writes, copies >>

Next ==
    \/ Serialize
    \/ Deliver
    \/ CorruptStreamId
    \/ DeserializeEntry
    \/ DeserializeField
    \/ DeserializeReturn

Spec == Init /\ [][Next]_vars

\* ------------------------------------------------- vocabulary of the claims

Min(a, b) == IF a < b THEN a ELSE b

\* The little-endian bytes of v in n bytes, written out independently of U32Bytes.
RECURSIVE LE(_, _)
LE(v, n) == IF n = 0 THEN << >> ELSE << v % 256 >> \o LE(v \div 256, n - 1)

Returned == pc = "returned"

\* The bytes of the field an entry describes, in a struct image.
FieldBytes(image, m) == Bytes(image, m.offset, m.size)

Ids(meta) == {meta[k].type_id : k \in DOMAIN meta}

\* The entry with this id (ids are unique within a table).
EntryOf(meta, id) == meta[CHOOSE k \in DOMAIN meta : meta[k].type_id = id]

\* The meta table a frame carries, and where its payload starts.
ReceivedCount(mem) == ReadU32(mem, 4)

ReceivedMeta(mem) ==
    [k \in 1..ReceivedCount(mem) |->
        [type_id |-> ReadU32(mem, 8 * k),
         offset  |-> ReadU16(mem, 8 * k + 4),
         size    |-> ReadU16(mem, 8 * k + 6)]]

PayloadBase(mem) == 8 + 8 * ReceivedCount(mem)

\* The frame still carries the stream id the sender wrote.
FrameAsSerialized == ReadU32(buffer, 0) = sender.stream_id

\* big is small plus exactly one field: same stream id, same sizes for the
\* fields they share (offsets may differ).
IsExtension(big, small) ==
    /\ big.stream_id = small.stream_id
    /\ Ids(small.meta) \subseteq Ids(big.meta)
    /\ Cardinality(Ids(big.meta)) = Cardinality(Ids(small.meta)) + 1
    /\ \A id \in Ids(small.meta) : EntryOf(big.meta, id).size = EntryOf(small.meta, id).size

ExtraField(big, small) ==
    EntryOf(big.meta, CHOOSE id \in Ids(big.meta) \ Ids(small.meta) : TRUE)

\* Some id has different sizes in the sender's and the receiver's table.
SizeMismatch ==
    \E id \in Ids(sender.meta) \cap Ids(receiver.meta) :
        EntryOf(sender.meta, id).size # EntryOf(receiver.meta, id).size

\* The indices of the fields of a table.
FieldIndices(meta) == UNION {Range(meta[k].offset, meta[k].size) : k \in DOMAIN meta}

\* The frame with its meta entries reordered: entry k of the result is entry p[k].
PermuteMeta(mem, p) ==
    [x \in DOMAIN mem |->
        IF x >= 8 /\ x < PayloadBase(mem)
        THEN mem[8 + 8 * (p[((x - 8) \div 8) + 1] - 1) + ((x - 8) % 8)]
        ELSE mem[x]]

\* The first bytes of the frame of example.c's obj1: stream id 1, two entries,
\* (1, 0, 4), (3, 4, 20), then 42 and "Hello, World!".
ExampleFrameHead ==
    << 1, 0, 0, 0,   2, 0, 0, 0,
       1, 0, 0, 0,   0, 0,   4, 0,
       3, 0, 0, 0,   4, 0,   20, 0,
       42, 0, 0, 0,  72, 101, 108, 108, 111, 44, 32, 87, 111, 114, 108, 100, 33, 0 >>

\* ------------------------------------------------------------------ claims

\* C1: round trip. Deserializing the frame Serialize produced, with the same
\* struct and the same stream id, returns ERROR_NONE and every field of the
\* receiver's struct holds the bytes of the sender's field.
C1_RoundTrip ==
    (Returned /\ receiver = sender /\ FrameAsSerialized)
        => /\ err = SERIALIZER_DESERIALIZER_ERROR_NONE
           /\ \A k \in DOMAIN sender.meta :
                  FieldBytes(obj2, sender.meta[k]) = FieldBytes(obj1, sender.meta[k])

\* The run of example.c: obj1 = {42, "Hello, World!"} arrives in the zeroed obj2.
C1_Witness ==
    /\ Returned
    /\ sender = Stream1_Struct_t
    /\ receiver = sender
    /\ obj1 = ExampleObj1
    /\ obj2_entry = Zeroed(receiver.size)
    /\ err = SERIALIZER_DESERIALIZER_ERROR_NONE
    /\ obj2 = ExampleObj1

\* C2: stream mismatch. When the stream id in the first 4 bytes of the frame
\* differs from the receiver's, Deserialize returns STREAM_ID_MISMATCH and has
\* written no byte of the struct, whatever else the frame holds.
C2_StreamMismatch ==
    (Returned /\ ReadU32(buffer, 0) # receiver.stream_id)
        => /\ err = SERIALIZER_DESERIALIZER_ERROR_STREAM_ID_MISMATCH
           /\ obj2 = obj2_entry
           /\ des_writes = {}
           /\ copies = << >>

\* A frame of the receiver's own stream whose stream-id bytes alone were
\* replaced (by an id equal in its low byte), refused with stale data in obj2.
C2_Witness ==
    /\ Returned
    /\ sender.stream_id = receiver.stream_id
    /\ ReadU32(buffer, 0) = 257
    /\ receiver.stream_id = 1
    /\ err = SERIALIZER_DESERIALIZER_ERROR_STREAM_ID_MISMATCH
    /\ obj2 = Pattern(160, receiver.size)

\* C3: frame layout. Serialize writes the stream id at 0..3, the number of
\* meta entries at 4..7, the entries in declared order at 8 bytes each
\* (id, offset, size), then the whole image of the struct, and writes nothing
\* at or after 8 + 8*n + sizeof(struct).
C3_FrameLayout ==
    pc = "serialized"
        => LET n    == Len(sender.meta)
               base == 8 + 8 * n
               end  == base + sender.size
           IN  /\ Bytes(buffer, 0, 4) = LE(sender.stream_id, 4)
               /\ Bytes(buffer, 4, 4) = LE(n, 4)
               /\ \A k \in 1..n :
                      Bytes(buffer, 8 * k, 8)
                          = LE(sender.meta[k].type_id, 4) \o LE(sender.meta[k].offset, 2)
                                \o LE(sender.meta[k].size, 2)
               /\ Bytes(buffer, base, sender.size) = Bytes(obj1, 0, sender.size)
               /\ ser_writes = 0..(end - 1)
               /\ \E m \in InitialMemory :
                      \A x \in end..(BUFFER_SIZE - 1) : buffer[x] = m[x]
               /\ (sender = Stream1_Struct_t /\ obj1 = ExampleObj1)
                      => Bytes(buffer, 0, Len(ExampleFrameHead)) = ExampleFrameHead

\* The frame of example.c's obj1, written over stale memory.
C3_Witness ==
    /\ pc = "serialized"
    /\ sender = Stream1_Struct_t
    /\ obj1 = ExampleObj1
    /\ Bytes(buffer, 0, Len(ExampleFrameHead)) = ExampleFrameHead
    /\ buffer[48] = 245
    /\ ser_writes = 0..47

\* C4: size-capped copy. For every received entry whose id the receiver
\* knows, Deserialize copies exactly min(received.size, local.size) bytes from
\* the payload at the received offset to the struct at the local offset.
C4_SizeCappedCopy ==
    \A k \in DOMAIN copies :
        copies[k].n >= 0
            => /\ copies[k].n = Min(copies[k].received_size, copies[k].our_size)
               /\ copies[k].src
                      = PayloadBase(buffer) + EntryOf(ReceivedMeta(buffer), copies[k].id).offset
               /\ copies[k].dst = EntryOf(receiver.meta, copies[k].id).offset

\* C5: memory safety under a size mismatch. When sender and receiver declare
\* different sizes for an id, Deserialize reads no payload byte at an index
\* >= sizeof(sender's struct), no byte outside the frame, and writes no byte
\* outside the receiver's struct.
C5_DecodeMemorySafe ==
    SizeMismatch
        => /\ \A k \in DOMAIN copies :
                  copies[k].n >= 0
                      => copies[k].src - PayloadBase(buffer) + copies[k].n <= sender.size
           /\ des_reads \subseteq 0..(FrameSize(sender) - 1)
           /\ des_writes \subseteq 0..(receiver.size - 1)

\* C6: forward compatibility. A frame of a sender whose struct is the
\* receiver's plus one field decodes without error, every field of the
\* receiver holds the sender's value, and the entry of the extra field
\* causes no write.
C6_ForwardCompatible ==
    (Returned /\ IsExtension(sender, receiver) /\ FrameAsSerialized)
        => /\ err = SERIALIZER_DESERIALIZER_ERROR_NONE
           /\ \A k \in DOMAIN receiver.meta :
                  FieldBytes(obj2, receiver.meta[k])
                      = FieldBytes(obj1, EntryOf(sender.meta, receiver.meta[k].type_id))
           /\ \A k \in DOMAIN copies :
                  copies[k].id = ExtraField(sender, receiver).type_id => copies[k].n = -1
           /\ Len(copies) = Len(sender.meta)
           /\ des_writes = FieldIndices(receiver.meta)
           /\ \A x \in DOMAIN obj2 \ FieldIndices(receiver.meta) : obj2[x] = obj2_entry[x]

\* A sender with field2 enabled (which moves field3) decoded by a receiver
\* without it.
C6_Witness ==
    /\ Returned
    /\ IsExtension(sender, receiver)
    /\ FrameAsSerialized
    /\ ExtraField(sender, receiver).type_id = 2
    /\ EntryOf(sender.meta, 3).offset # EntryOf(receiver.meta, 3).offset
    /\ err = SERIALIZER_DESERIALIZER_ERROR_NONE
    /\ Len(copies) = Len(receiver.meta) + 1
    /\ obj2 # obj2_entry

\* C7: backward compatibility. After a successful Deserialize every field of
\* the receiver whose id the frame does not carry holds the bytes it held on
\* entry, and every field whose id it carries is filled from the payload at
\* the received offset; a receiver whose struct is the sender's plus one
\* field, started from a zeroed struct, ends with the extra field zero and
\* the sender's fields in place.
C7_MissingFieldsKeepValue ==
    (Returned /\ err = SERIALIZER_DESERIALIZER_ERROR_NONE)
        => /\ \A k \in DOMAIN receiver.meta :
                  LET m == receiver.meta[k]
                  IN  IF m.type_id \notin Ids(ReceivedMeta(buffer))
                      THEN FieldBytes(obj2, m) = FieldBytes(obj2_entry, m)
                      ELSE LET r == EntryOf(ReceivedMeta(buffer), m.type_id)
                               c == Min(r.size, m.size)
                           IN  Bytes(obj2, m.offset, c)
                                   = Bytes(buffer, PayloadBase(buffer) + r.offset, c)
           /\ (IsExtension(receiver, sender) /\ obj2_entry = Zeroed(receiver.size))
                  => /\ FieldBytes(obj2, ExtraField(receiver, sender))
                            = [x \in 1..ExtraField(receiver, sender).size |-> 0]
                     /\ \A k \in DOMAIN sender.meta :
                            FieldBytes(obj2, EntryOf(receiver.meta, sender.meta[k].type_id))
                                = FieldBytes(obj1, sender.meta[k])

\* A receiver with field2 enabled decodes, into a zeroed struct, the frame of
\* a sender without it.
C7_Witness ==
    /\ Returned
    /\ err = SERIALIZER_DESERIALIZER_ERROR_NONE
    /\ IsExtension(receiver, sender)
    /\ ExtraField(receiver, sender).type_id = 2
    /\ obj2_entry = Zeroed(receiver.size)
    /\ obj2 # obj2_entry
    /\ FieldBytes(obj2, ExtraField(receiver, sender)) = << 0, 0, 0, 0 >>

\* C8: order independence. Deserializing the frame with its meta entries in
\* any other order, from the same struct on entry, returns the same value and
\* leaves the same struct.
C8_OrderIndependent ==
    Returned
        => \A p \in Permutations(1..ReceivedCount(buffer)) :
               DeserializeImpl(PermuteMeta(buffer, p), obj2_entry, receiver)
                   = [err |-> err, obj |-> obj2]

\* A frame of three entries, one of them unknown to the receiver, decoded
\* over stale data.
C8_Witness ==
    /\ Returned
    /\ err = SERIALIZER_DESERIALIZER_ERROR_NONE
    /\ ReceivedCount(buffer) = 3
    /\ Len(receiver.meta) = 2
    /\ obj2_entry = Pattern(160, receiver.size)
    /\ obj2 # obj2_entry

\* C9: encode buffer check. When the destination buffer is shorter than
\* 8 + 8*n + sizeof(struct), Serialize writes no byte past its end.
C9_EncodeBufferCheck ==
    (pc = "serialized" /\ bufCap < FrameSize(sender))
        => ser_writes \subseteq 0..(bufCap - 1)

\* C10: the outcome is decided by the stream id alone. Deserialize returns
\* STREAM_ID_MISMATCH exactly when the frame's stream id differs from the
\* receiver's; otherwise it visits all received entries in frame order,
\* 8 bytes apart, matched or not, and returns ERROR_NONE.
C10_OutcomeDecidedAtStep1 ==
    /\ pc = "loop"
           => /\ meta_field_ptr = 8 + 8 * i
              /\ Len(copies) = i
              /\ i <= ReceivedCount(buffer)
    /\ Returned
           => /\ err = SERIALIZER_DESERIALIZER_ERROR_STREAM_ID_MISMATCH
                     <=> ReadU32(buffer, 0) # receiver.stream_id
              /\ err = SERIALIZER_DESERIALIZER_ERROR_NONE
                     <=> ReadU32(buffer, 0) = receiver.stream_id
              /\ err = SERIALIZER_DESERIALIZER_ERROR_NONE
                     => /\ i = ReceivedCount(buffer)
                        /\ meta_field_ptr = PayloadBase(buffer)
                        /\ Len(copies) = ReceivedCount(buffer)
                        /\ \A k \in DOMAIN copies :
                               copies[k].id = ReceivedMeta(buffer)[k].type_id

\* A successful return over a frame with an entry unknown to the receiver
\* and an entry of another size than the receiver's.
C10_Witness ==
    /\ Returned
    /\ err = SERIALIZER_DESERIALIZER_ERROR_NONE
    /\ \E k \in DOMAIN copies : copies[k].n = -1
    /\ \E k \in DOMAIN copies :
           copies[k].n >= 0 /\ copies[k].received_size # copies[k].our_size

====
